---- MODULE Spec2Model ----
(***************************************************************************)
(* A model of package dnscodec (bassosimone/dcmp): validation of a DNS     *)
(* response against its query, result-code classification, CNAME-chain     *)
(* aware answer extraction and the Response facade.                        *)
(*                                                                         *)
(* Strings are sequences of byte values (ASCII codes), so that the case    *)
(* folding of responseEqualASCIIName and of dns.CanonicalName is the       *)
(* arithmetic the code performs.  Errors are values with an identity       *)
(* (name) and a message (text): errors.Is compares identities.             *)
(***************************************************************************)
EXTENDS Integers, Sequences, FiniteSets, TLC

VARIABLES query, resp, rp, ret, heap, cp, arg, res

vars == <<query, resp, rp, ret, heap, cp, arg, res>>

-----------------------------------------------------------------------------
(* Bounds of the model.                                                    *)

MaxQuestions == 2
MaxRcode == 5
MaxAnswers == 3
MaxFlags == 3
MaxBaseLen == 300
MaxNameLen == 2

-----------------------------------------------------------------------------
(* Constants of github.com/miekg/dns used by the package.                  *)

RcodeSuccess == 0
RcodeServerFailure == 2
RcodeNameError == 3
RcodeRefused == 5

ClassINET == 1
ClassCHAOS == 3

TypeA == 1
TypeAAAA == 28

-----------------------------------------------------------------------------
(* Constants of query.go.                                                  *)

QueryFlagBlockLengthPadding == 1
QueryFlagDNSSec == 2

QueryMaxResponseSizeUDP == 1232
QueryMaxResponseSizeTCP == 4096

-----------------------------------------------------------------------------
(* Errors: var blocks of response.go.                                      *)

NoError == [name |-> "nil", text |-> ""]
ErrInvalidQuery == [name |-> "ErrInvalidQuery", text |-> "invalid query"]
ErrCannotUnmarshalMessage ==
    [name |-> "ErrCannotUnmarshalMessage", text |-> "cannot unmarshal DNS message"]
ErrInvalidResponse == [name |-> "ErrInvalidResponse", text |-> "invalid DNS response"]
ErrNoName == [name |-> "ErrNoName", text |-> "no such host"]
ErrServerMisbehaving == [name |-> "ErrServerMisbehaving", text |-> "server misbehaving"]
ErrServerTemporarilyMisbehaving ==
    [name |-> "ErrServerTemporarilyMisbehaving", text |-> "server misbehaving"]
ErrNoData == [name |-> "ErrNoData", text |-> "no answer from DNS server"]

-----------------------------------------------------------------------------
(* Names.  Bytes: 'A' = 65 .. 'Z' = 90, 'a' = 97, '.' = 46.                *)

n_a == <<97, 46>>          \* "a."
n_A == <<65, 46>>          \* "A."
n_a_rel == <<97>>          \* "a"
n_b == <<98, 46>>          \* "b."
n_B == <<66, 46>>          \* "B."
n_b_rel == <<98>>          \* "b"
n_B_rel == <<66>>          \* "B"
n_c == <<99, 46>>          \* "c."
n_C == <<67, 46>>          \* "C."

\* a += 0x20 when 'A' <= a <= 'Z'
FoldByte(a) == IF 65 <= a /\ a <= 90 THEN a + 32 ELSE a

\* a |= 0x20 on every byte
MutEqualNameFoldsEveryByte(x, y) ==
    IF Len(x) # Len(y)
    THEN FALSE
    ELSE \A i \in 1..Len(x) :
            (IF (x[i] \div 32) % 2 = 0 THEN x[i] + 32 ELSE x[i])
            = (IF (y[i] \div 32) % 2 = 0 THEN y[i] + 32 ELSE y[i])

responseEqualASCIIName(x, y) ==
    IF Len(x) # Len(y)
    THEN FALSE
    ELSE \A i \in 1..Len(x) : FoldByte(x[i]) = FoldByte(y[i])

\* dns.IsFqdn: the name ends with a dot (the alphabet of the model has no
\* backslash, so the dot is never escaped).
IsFqdn(s) == Len(s) > 0 /\ s[Len(s)] = 46

\* dns.Fqdn
Fqdn(s) == IF IsFqdn(s) THEN s ELSE Append(s, 46)

\* dns.CanonicalName: lower-case the US-ASCII letters of Fqdn(name)
responseCanonicalName(name) ==
    LET f == Fqdn(name) IN [i \in 1..Len(f) |-> FoldByte(f[i])]

-----------------------------------------------------------------------------
(* Messages.                                                               *)

\* dns.Question{}
ZeroQuestion == [Name |-> <<>>, Qtype |-> 0, Qclass |-> 0]

Question(n, t, c) == [Name |-> n, Qtype |-> t, Qclass |-> c]

\* a nil slice returned together with an error, and a non-nil slice
NilList == [isNil |-> TRUE, items |-> <<>>]
List(s) == [isNil |-> FALSE, items |-> s]

\* no *Response
NoResponse == [ok |-> FALSE, Query |-> "nil", Response |-> "nil", ValidRRs |-> <<>>]

\* sequences over S of length at most n
SeqUpTo(S, n) == UNION {[1..k -> S] : k \in 0..n}

-----------------------------------------------------------------------------
(* ValidateResponseForQuery.                                               *)

MutValidateRespQuestionFirst(q, r) ==
    IF ~r.Response THEN [q |-> ZeroQuestion, err |-> ErrInvalidResponse]
    ELSE IF r.Id # q.Id THEN [q |-> ZeroQuestion, err |-> ErrInvalidResponse]
    ELSE IF Len(r.Question) # 1 THEN [q |-> ZeroQuestion, err |-> ErrInvalidResponse]
    ELSE IF Len(q.Question) # 1 THEN [q |-> ZeroQuestion, err |-> ErrInvalidQuery]
    ELSE IF ~responseEqualASCIIName(r.Question[1].Name, q.Question[1].Name)
         THEN [q |-> ZeroQuestion, err |-> ErrInvalidResponse]
    ELSE IF r.Question[1].Qclass # q.Question[1].Qclass
         THEN [q |-> ZeroQuestion, err |-> ErrInvalidResponse]
    ELSE IF r.Question[1].Qtype # q.Question[1].Qtype
         THEN [q |-> ZeroQuestion, err |-> ErrInvalidResponse]
    ELSE [q |-> q.Question[1], err |-> NoError]

MutValidateQueryFirst(q, r) ==
    IF Len(q.Question) # 1 THEN [q |-> ZeroQuestion, err |-> ErrInvalidQuery]
    ELSE IF ~r.Response THEN [q |-> ZeroQuestion, err |-> ErrInvalidResponse]
    ELSE IF r.Id # q.Id THEN [q |-> ZeroQuestion, err |-> ErrInvalidResponse]
    ELSE IF Len(r.Question) # 1 THEN [q |-> ZeroQuestion, err |-> ErrInvalidResponse]
    ELSE IF ~responseEqualASCIIName(r.Question[1].Name, q.Question[1].Name)
         THEN [q |-> ZeroQuestion, err |-> ErrInvalidResponse]
    ELSE IF r.Question[1].Qclass # q.Question[1].Qclass
         THEN [q |-> ZeroQuestion, err |-> ErrInvalidResponse]
    ELSE IF r.Question[1].Qtype # q.Question[1].Qtype
         THEN [q |-> ZeroQuestion, err |-> ErrInvalidResponse]
    ELSE [q |-> q.Question[1], err |-> NoError]

MutValidateReturnsRespQuestion(q, r) ==
    IF ~r.Response THEN [q |-> ZeroQuestion, err |-> ErrInvalidResponse]
    ELSE IF r.Id # q.Id THEN [q |-> ZeroQuestion, err |-> ErrInvalidResponse]
    ELSE IF Len(q.Question) # 1 THEN [q |-> ZeroQuestion, err |-> ErrInvalidQuery]
    ELSE IF Len(r.Question) # 1 THEN [q |-> ZeroQuestion, err |-> ErrInvalidResponse]
    ELSE IF ~responseEqualASCIIName(r.Question[1].Name, q.Question[1].Name)
         THEN [q |-> ZeroQuestion, err |-> ErrInvalidResponse]
    ELSE IF r.Question[1].Qclass # q.Question[1].Qclass
         THEN [q |-> ZeroQuestion, err |-> ErrInvalidResponse]
    ELSE IF r.Question[1].Qtype # q.Question[1].Qtype
         THEN [q |-> ZeroQuestion, err |-> ErrInvalidResponse]
    ELSE [q |-> r.Question[1], err |-> NoError]

ValidateResponseForQuery(q, r) ==
    \* 1. make sure the message is actually a response
    IF ~r.Response THEN [q |-> ZeroQuestion, err |-> ErrInvalidResponse]
    \* 2. make sure the response ID matches the query ID
    ELSE IF r.Id # q.Id THEN [q |-> ZeroQuestion, err |-> ErrInvalidResponse]
    \* 3. make sure the query and the response contains a question
    ELSE IF Len(q.Question) # 1 THEN [q |-> ZeroQuestion, err |-> ErrInvalidQuery]
    ELSE IF Len(r.Question) # 1 THEN [q |-> ZeroQuestion, err |-> ErrInvalidResponse]
    \* 4. make sure the question name is correct
    ELSE IF ~responseEqualASCIIName(r.Question[1].Name, q.Question[1].Name)
         THEN [q |-> ZeroQuestion, err |-> ErrInvalidResponse]
    ELSE IF r.Question[1].Qclass # q.Question[1].Qclass
         THEN [q |-> ZeroQuestion, err |-> ErrInvalidResponse]
    ELSE IF r.Question[1].Qtype # q.Question[1].Qtype
         THEN [q |-> ZeroQuestion, err |-> ErrInvalidResponse]
    ELSE [q |-> q.Question[1], err |-> NoError]

-----------------------------------------------------------------------------
(* ResponseErrorFromRCODE.                                                 *)

MutRCODEServfailGeneric(r) ==
    IF r.Rcode = RcodeNameError THEN ErrNoName
    ELSE IF /\ r.Rcode = RcodeSuccess
            /\ ~r.Authoritative
            /\ ~r.RecursionAvailable
            /\ Len(r.Answer) = 0
         THEN ErrNoData
    ELSE IF r.Rcode # RcodeSuccess THEN ErrServerMisbehaving
    ELSE NoError

ResponseErrorFromRCODE(r) ==
    \* 1. handle NXDOMAIN case by mapping it to EAI_NONAME
    IF r.Rcode = RcodeNameError THEN ErrNoName
    \* 2. handle the case of lame referral by mapping it to EAI_NODATA
    ELSE IF /\ r.Rcode = RcodeSuccess
            /\ ~r.Authoritative
            /\ ~r.RecursionAvailable
            /\ Len(r.Answer) = 0
         THEN ErrNoData
    \* 3. handle any other error by mapping to EAI_FAIL
    ELSE IF r.Rcode # RcodeSuccess
         THEN IF r.Rcode = RcodeServerFailure
              THEN ErrServerTemporarilyMisbehaving
              ELSE ErrServerMisbehaving
    ELSE NoError

-----------------------------------------------------------------------------
(* Resource records: the concrete Go type (kind), the header's name and    *)
(* class, and the payload (Target of a *dns.CNAME, address of a *dns.A).   *)

RR_A(n, c) == [kind |-> "A", Name |-> n, Class |-> c, Target |-> <<>>, Addr |-> 1]
RR_CNAME(n, c, t) ==
    [kind |-> "CNAME", Name |-> n, Class |-> c, Target |-> t, Addr |-> 0]
RR_AAAA(n, c) == [kind |-> "AAAA", Name |-> n, Class |-> c, Target |-> <<>>, Addr |-> 3]
RR_TXT(n, c) == [kind |-> "TXT", Name |-> n, Class |-> c, Target |-> <<>>, Addr |-> 0]

\* net.IP.String() of the addresses the records hold
IPString(addr) ==
    CASE addr = 1 -> "127.0.0.1"
      [] addr = 2 -> "8.8.8.8"
      [] addr = 3 -> "2001:db8::1"
      [] addr = 4 -> "::1"
      [] OTHER -> "<nil>"

-----------------------------------------------------------------------------
(* ResponseExtractValidAnswers.                                            *)

RECURSIVE MutBuildChainNoClass(_, _, _, _, _, _)
MutBuildChainNoClass(q0, answer, i, validNames, currentName, followed) ==
    IF i > Len(answer)
    THEN [validNames |-> validNames, currentName |-> currentName,
          followed |-> followed]
    ELSE IF /\ answer[i].kind = "CNAME"
            /\ responseEqualASCIIName(currentName, answer[i].Name)
         THEN MutBuildChainNoClass(q0, answer, i + 1,
                         validNames \cup {responseCanonicalName(answer[i].Target)},
                         responseCanonicalName(answer[i].Target),
                         Append(followed, i))
         ELSE MutBuildChainNoClass(q0, answer, i + 1, validNames, currentName,
                                   followed)

RECURSIVE MutBuildChainAnyValidOwner(_, _, _, _, _, _)
MutBuildChainAnyValidOwner(q0, answer, i, validNames, currentName, followed) ==
    IF i > Len(answer)
    THEN [validNames |-> validNames, currentName |-> currentName,
          followed |-> followed]
    ELSE IF /\ answer[i].kind = "CNAME"
            /\ responseCanonicalName(answer[i].Name) \in validNames
            /\ answer[i].Class = q0.Qclass
         THEN MutBuildChainAnyValidOwner(q0, answer, i + 1,
                         validNames \cup {responseCanonicalName(answer[i].Target)},
                         responseCanonicalName(answer[i].Target),
                         Append(followed, i))
         ELSE MutBuildChainAnyValidOwner(q0, answer, i + 1, validNames,
                                         currentName, followed)

\* The first loop, from answer i on: validNames and currentName as the code
\* keeps them; followed lists the positions of the CNAMEs whose target became
\* currentName (not a variable of the code: it names the chain).
RECURSIVE BuildChain(_, _, _, _, _, _)
BuildChain(q0, answer, i, validNames, currentName, followed) ==
    IF i > Len(answer)
    THEN [validNames |-> validNames, currentName |-> currentName,
          followed |-> followed]
    ELSE IF /\ answer[i].kind = "CNAME"
            /\ responseEqualASCIIName(currentName, answer[i].Name)
            /\ answer[i].Class = q0.Qclass
         THEN BuildChain(q0, answer, i + 1,
                         validNames \cup {responseCanonicalName(answer[i].Target)},
                         responseCanonicalName(answer[i].Target),
                         Append(followed, i))
         ELSE BuildChain(q0, answer, i + 1, validNames, currentName, followed)

\* 1. Build CNAME chain starting from the query name.
ChainOf(q0, answer) ==
    BuildChain(q0, answer, 1, {responseCanonicalName(q0.Name)}, q0.Name, <<>>)

RECURSIVE MutValidPositionsNoClass(_, _, _, _)
MutValidPositionsNoClass(q0, answer, validNames, i) ==
    IF i > Len(answer) THEN <<>>
    ELSE IF responseCanonicalName(answer[i].Name) \notin validNames
         THEN MutValidPositionsNoClass(q0, answer, validNames, i + 1)
    ELSE <<i>> \o MutValidPositionsNoClass(q0, answer, validNames, i + 1)

RECURSIVE MutValidPositionsAddressesOnly(_, _, _, _)
MutValidPositionsAddressesOnly(q0, answer, validNames, i) ==
    IF i > Len(answer) THEN <<>>
    ELSE IF responseCanonicalName(answer[i].Name) \notin validNames
         THEN MutValidPositionsAddressesOnly(q0, answer, validNames, i + 1)
    ELSE IF q0.Qclass # answer[i].Class
         THEN MutValidPositionsAddressesOnly(q0, answer, validNames, i + 1)
    ELSE IF answer[i].kind \notin {"A", "CNAME"}
         THEN MutValidPositionsAddressesOnly(q0, answer, validNames, i + 1)
    ELSE <<i>> \o MutValidPositionsAddressesOnly(q0, answer, validNames, i + 1)

\* 2. Build list of valid answers: the positions the second loop keeps.
RECURSIVE ValidPositions(_, _, _, _)
ValidPositions(q0, answer, validNames, i) ==
    IF i > Len(answer) THEN <<>>
    ELSE IF responseCanonicalName(answer[i].Name) \notin validNames
         THEN ValidPositions(q0, answer, validNames, i + 1)
    ELSE IF q0.Qclass # answer[i].Class
         THEN ValidPositions(q0, answer, validNames, i + 1)
    ELSE <<i>> \o ValidPositions(q0, answer, validNames, i + 1)

MutExtractReturnsEmpty(q0, r) ==
    LET chain == ChainOf(q0, r.Answer)
        pos == ValidPositions(q0, r.Answer, chain.validNames, 1)
        valid == [k \in 1..Len(pos) |-> r.Answer[pos[k]]]
    IN  [rrs |-> List(valid), err |-> NoError]

MutExtractReversed(q0, r) ==
    LET chain == ChainOf(q0, r.Answer)
        pos == ValidPositions(q0, r.Answer, chain.validNames, 1)
        valid == [k \in 1..Len(pos) |-> r.Answer[pos[Len(pos) + 1 - k]]]
    IN  IF Len(valid) < 1
        THEN [rrs |-> NilList, err |-> ErrNoData]
        ELSE [rrs |-> List(valid), err |-> NoError]

ResponseExtractValidAnswers(q0, r) ==
    LET chain == ChainOf(q0, r.Answer)
        pos == ValidPositions(q0, r.Answer, chain.validNames, 1)
        valid == [k \in 1..Len(pos) |-> r.Answer[pos[k]]]
    IN  \* 3. Handle the case of no valid answers
        IF Len(valid) < 1
        THEN [rrs |-> NilList, err |-> ErrNoData]
        \* 4. Return the list.
        ELSE [rrs |-> List(valid), err |-> NoError]

\* valid := resp.Answer[:0]: the kept records overwrite the head of the
\* answer section
MutRespAfterExtractInPlace(q0, r) ==
    LET chain == ChainOf(q0, r.Answer)
        pos == ValidPositions(q0, r.Answer, chain.validNames, 1)
        valid == [k \in 1..Len(pos) |-> r.Answer[pos[k]]]
    IN  [r EXCEPT !.Answer = valid \o SubSeq(r.Answer, Len(valid) + 1, Len(r.Answer))]

\* *resp after ResponseExtractValidAnswers(q0, resp): the code ranges over
\* resp.Answer and appends to valid, a slice of its own; it assigns to
\* nothing reachable from resp.
RespAfterExtract(q0, r) == r

-----------------------------------------------------------------------------
(* ParseResponse and the Response facade.                                  *)

\* The two *dns.Msg of a call: a pointer is the name of the message it
\* points to.
Deref(p) == IF p = "query" THEN query ELSE resp

\* &Response{Query: query, Response: resp, ValidRRs: rrs}
NewResponse(qp, rptr, rrs) ==
    [ok |-> TRUE, Query |-> qp, Response |-> rptr, ValidRRs |-> rrs]

MutParseRcodeFirst(qp, rptr) ==
    LET q == Deref(qp)
        r == Deref(rptr)
        v == ValidateResponseForQuery(q, r)
        e == ResponseErrorFromRCODE(r)
        x == ResponseExtractValidAnswers(v.q, r)
    IN  IF e # NoError THEN [rp |-> NoResponse, err |-> e, stage |-> "rcode"]
        ELSE IF v.err # NoError
             THEN [rp |-> NoResponse, err |-> v.err, stage |-> "validate"]
        ELSE IF x.err # NoError
             THEN [rp |-> NoResponse, err |-> x.err, stage |-> "extract"]
        ELSE [rp |-> NewResponse(qp, rptr, x.rrs.items), err |-> NoError,
              stage |-> "done"]

MutParseNoRcodeCheck(qp, rptr) ==
    LET q == Deref(qp)
        r == Deref(rptr)
        v == ValidateResponseForQuery(q, r)
        x == ResponseExtractValidAnswers(v.q, r)
    IN  IF v.err # NoError
        THEN [rp |-> NoResponse, err |-> v.err, stage |-> "validate"]
        ELSE IF x.err # NoError
             THEN [rp |-> NoResponse, err |-> x.err, stage |-> "extract"]
        ELSE [rp |-> NewResponse(qp, rptr, x.rrs.items), err |-> NoError,
              stage |-> "done"]

\* stage: the step that returned (not a value of the code: it names the
\* return statement taken).
ParseResponse(qp, rptr) ==
    LET q == Deref(qp)
        r == Deref(rptr)
        v == ValidateResponseForQuery(q, r)
        e == ResponseErrorFromRCODE(r)
        x == ResponseExtractValidAnswers(v.q, r)
    IN  IF v.err # NoError
        THEN [rp |-> NoResponse, err |-> v.err, stage |-> "validate"]
        ELSE IF e # NoError
             THEN [rp |-> NoResponse, err |-> e, stage |-> "rcode"]
        ELSE IF x.err # NoError
             THEN [rp |-> NoResponse, err |-> x.err, stage |-> "extract"]
        ELSE [rp |-> NewResponse(qp, rptr, x.rrs.items), err |-> NoError,
              stage |-> "done"]

\* Response.RecordsCNAME: one scan of ValidRRs, in order, collecting the
\* target of every *dns.CNAME; ErrNoData and a nil list when there is none.
RecordsCNAME(r) ==
    LET cn == SelectSeq(r.ValidRRs, LAMBDA rr : rr.kind = "CNAME")
        out == [k \in 1..Len(cn) |-> cn[k].Target]
    IN  IF Len(out) < 1
        THEN [strs |-> NilList, err |-> ErrNoData]
        ELSE [strs |-> List(out), err |-> NoError]

MutRecordsAEmptyList(r) ==
    LET a == SelectSeq(r.ValidRRs, LAMBDA rr : rr.kind = "A")
    IN  [strs |-> List([k \in 1..Len(a) |-> IPString(a[k].Addr)]), err |-> NoError]

\* Response.RecordsA
RecordsA(r) ==
    LET a == SelectSeq(r.ValidRRs, LAMBDA rr : rr.kind = "A")
        out == [k \in 1..Len(a) |-> IPString(a[k].Addr)]
    IN  IF Len(out) < 1
        THEN [strs |-> NilList, err |-> ErrNoData]
        ELSE [strs |-> List(out), err |-> NoError]

\* Response.RecordsAAAA
RecordsAAAA(r) ==
    LET a == SelectSeq(r.ValidRRs, LAMBDA rr : rr.kind = "AAAA")
        out == [k \in 1..Len(a) |-> IPString(a[k].Addr)]
    IN  IF Len(out) < 1
        THEN [strs |-> NilList, err |-> ErrNoData]
        ELSE [strs |-> List(out), err |-> NoError]

\* Response.RecordFirstCNAME: the target of the first *dns.CNAME, else ""
\* and ErrNoData
RecordFirstCNAME(r) ==
    LET cn == SelectSeq(r.ValidRRs, LAMBDA rr : rr.kind = "CNAME")
    IN  IF Len(cn) >= 1
        THEN [str |-> cn[1].Target, err |-> NoError]
        ELSE [str |-> <<>>, err |-> ErrNoData]
-----------------------------------------------------------------------------
(* Query, NewQuery, Clone and NewMsg (query.go).  A *Query is the position *)
(* of its struct in heap.                                                  *)

n_bad == <<97, 32, 98>>    \* "a b"

\* &Query{...}
Query(name, qtype, flags, id, maxSize) ==
    [Name |-> name, Type |-> qtype, Flags |-> flags, ID |-> id, MaxSize |-> maxSize]

\* NewQuery(name, qtype), dns.Id() having returned id
NewQuery(name, qtype, id) == Query(name, qtype, 0, id, QueryMaxResponseSizeUDP)

MutCloneAliases(h, p) == [heap |-> h, ptr |-> p]

\* q.Clone(): a new struct with the five fields of *q
Clone(h, p) ==
    [heap |-> Append(h, Query(h[p].Name, h[p].Type, h[p].Flags, h[p].ID,
                              h[p].MaxSize)),
     ptr |-> Len(h) + 1]

\* flags&bit != 0, for a bit 2^k
HasFlag(flags, bit) == (flags \div bit) % 2 = 1

\* the error of idna.Lookup.ToASCII
ErrIDNA == [name |-> "idna.labelError", text |-> "idna: disallowed rune"]

\* a byte a host name may hold: letter, digit, hyphen or dot
IsHostByte(b) ==
    \/ 65 <= b /\ b <= 90
    \/ 97 <= b /\ b <= 122
    \/ 48 <= b /\ b <= 57
    \/ b = 45
    \/ b = 46

\* idna.Lookup.ToASCII on an ASCII name: an error when a byte is not allowed
\* in a host name, else the name mapped to lower case
ToASCII(name) ==
    IF \E i \in 1..Len(name) : ~IsHostByte(name[i])
    THEN [s |-> <<>>, err |-> ErrIDNA]
    ELSE [s |-> [i \in 1..Len(name) |-> FoldByte(name[i])], err |-> NoError]

\* no *dns.Msg
NilMsg ==
    [isNil |-> TRUE, Id |-> 0, RecursionDesired |-> FALSE, Question |-> <<>>,
     Extra |-> <<>>]

\* the *dns.OPT of SetEdns0(udpsize, do)
OPT(udpsize, do) == [UDPSize |-> udpsize, Do |-> do, Option |-> <<>>]

\* a *dns.EDNS0_PADDING of n zero bytes
EDNS0_PADDING(n) == [code |-> "PADDING", Padding |-> n]

\* the wire length of a fully qualified name: one length byte per label and
\* the root label
NameWireLen(name) == IF Len(name) = 1 THEN 1 ELSE Len(name) + 1

RECURSIVE OptionsLen(_)
OptionsLen(opts) ==
    IF opts = <<>> THEN 0
    ELSE 4 + Head(opts).Padding + OptionsLen(Tail(opts))

\* msg.Len(): header, question, and the OPT record with its options
MsgLen(m) ==
    12 + NameWireLen(m.Question[1].Name) + 4 + 11 + OptionsLen(m.Extra[1].Option)

\* Go's % on int: the remainder has the sign of the dividend
GoRem(a, b) == IF a >= 0 THEN a % b ELSE 0 - ((0 - a) % b)

MutPaddingSizeSigned(len) == GoRem(128 - (len + 4), 128)

\* (desiredSize - uint16(msg.Len()+4)) % desiredSize, in uint16
PaddingSize(len) ==
    LET u == (len + 4) % 65536
        d == ((128 - u) + 65536) % 65536
    IN  d % 128

\* msg.Question = make([]dns.Question, 1) followed by an append
MutNewMsgAppendsQuestion(qv) ==
    LET puny == ToASCII(qv.Name) IN
    IF puny.err # NoError
    THEN [msg |-> NilMsg, err |-> puny.err, self |-> qv]
    ELSE LET m == [isNil |-> FALSE, Id |-> qv.ID, RecursionDesired |-> TRUE,
                   Question |-> <<ZeroQuestion,
                                  Question(Fqdn(puny.s), qv.Type, ClassINET)>>,
                   Extra |-> <<OPT(qv.MaxSize, HasFlag(qv.Flags, QueryFlagDNSSec))>>]
         IN  [msg |-> m, err |-> NoError, self |-> qv]

MutNewMsgStoresName(qv) ==
    LET puny == ToASCII(qv.Name) IN
    IF puny.err # NoError
    THEN [msg |-> NilMsg, err |-> puny.err, self |-> [qv EXCEPT !.Name = <<>>]]
    ELSE LET m == [isNil |-> FALSE, Id |-> qv.ID, RecursionDesired |-> TRUE,
                   Question |-> <<Question(Fqdn(puny.s), qv.Type, ClassINET)>>,
                   Extra |-> <<OPT(qv.MaxSize, HasFlag(qv.Flags, QueryFlagDNSSec))>>]
         IN  [msg |-> m, err |-> NoError, self |-> [qv EXCEPT !.Name = Fqdn(puny.s)]]

MutNewMsgPadsOnlyWithDNSSec(qv) ==
    LET puny == ToASCII(qv.Name) IN
    IF puny.err # NoError
    THEN [msg |-> NilMsg, err |-> puny.err, self |-> qv]
    ELSE LET m == [isNil |-> FALSE, Id |-> qv.ID, RecursionDesired |-> TRUE,
                   Question |-> <<Question(Fqdn(puny.s), qv.Type, ClassINET)>>,
                   Extra |-> <<OPT(qv.MaxSize, HasFlag(qv.Flags, QueryFlagDNSSec))>>]
         IN  IF /\ HasFlag(qv.Flags, QueryFlagBlockLengthPadding)
                /\ HasFlag(qv.Flags, QueryFlagDNSSec)
             THEN [msg |-> [m EXCEPT !.Extra[1].Option =
                               Append(@, EDNS0_PADDING(PaddingSize(MsgLen(m))))],
                   err |-> NoError, self |-> qv]
             ELSE [msg |-> m, err |-> NoError, self |-> qv]

\* q.NewMsg(): the message, the error, and *q after the call (the code
\* assigns to no field of q)
NewMsg(qv) ==
    \* IDNA encode the domain name.
    LET puny == ToASCII(qv.Name) IN
    IF puny.err # NoError
    THEN [msg |-> NilMsg, err |-> puny.err, self |-> qv]
    ELSE \* Ensure the domain name is fully qualified.
         LET punyName == IF ~IsFqdn(puny.s) THEN Fqdn(puny.s) ELSE puny.s
             \* Create the query message and set the EDNS(0) query options.
             m == [isNil |-> FALSE, Id |-> qv.ID, RecursionDesired |-> TRUE,
                   Question |-> <<Question(punyName, qv.Type, ClassINET)>>,
                   Extra |-> <<OPT(qv.MaxSize, HasFlag(qv.Flags, QueryFlagDNSSec))>>]
         IN  IF HasFlag(qv.Flags, QueryFlagBlockLengthPadding)
             THEN [msg |-> [m EXCEPT !.Extra[1].Option =
                               Append(@, EDNS0_PADDING(PaddingSize(MsgLen(m))))],
                   err |-> NoError, self |-> qv]
             ELSE [msg |-> m, err |-> NoError, self |-> qv]

\* the arguments of a call of a function of names or lengths
NoArg == [x |-> <<>>, y |-> <<>>, n |-> 0]

\* the result of the last call on the query side
NoRes ==
    [op |-> "none", err |-> NoError, msg |-> NilMsg, ptr |-> 0, b |-> FALSE,
     n |-> 0]

BuilderIdle ==
    /\ heap = <<>>
    /\ cp = 0
    /\ arg = NoArg
    /\ res = NoRes

-----------------------------------------------------------------------------
(* The result of the last call.                                            *)

NoCall ==
    [op |-> "none", err |-> NoError, q |-> ZeroQuestion, rrs |-> NilList,
     strs |-> NilList, str |-> <<>>, stage |-> "none"]

\* ValidateResponseForQuery(query, resp)
CallValidate ==
    /\ ret.op = "none"
    /\ LET v == ValidateResponseForQuery(query, resp) IN
         ret' = [NoCall EXCEPT !.op = "validate", !.err = v.err, !.q = v.q]
    /\ UNCHANGED <<query, resp, rp, heap, cp, arg, res>>

\* ResponseErrorFromRCODE(resp)
CallRCODE ==
    /\ ret.op = "none"
    /\ ret' = [NoCall EXCEPT !.op = "rcode", !.err = ResponseErrorFromRCODE(resp)]
    /\ UNCHANGED <<query, resp, rp, heap, cp, arg, res>>

\* ResponseExtractValidAnswers(query.Question[0], resp), as the tests call it
CallExtract ==
    /\ ret.op = "none"
    /\ Len(query.Question) >= 1
    /\ LET x == ResponseExtractValidAnswers(query.Question[1], resp) IN
         ret' = [NoCall EXCEPT !.op = "extract", !.err = x.err, !.rrs = x.rrs]
    /\ resp' = RespAfterExtract(query.Question[1], resp)
    /\ UNCHANGED <<query, rp, heap, cp, arg, res>>

\* rp, err := ParseResponse(query, resp)
CallParse ==
    /\ ret.op = "none"
    /\ LET p == ParseResponse("query", "resp") IN
         /\ rp' = p.rp
         /\ ret' = [NoCall EXCEPT !.op = "parse", !.err = p.err, !.stage = p.stage]
         /\ resp' = IF p.stage \in {"extract", "done"}
                    THEN RespAfterExtract(query.Question[1], resp)
                    ELSE resp
    /\ UNCHANGED <<query, heap, cp, arg, res>>

\* rp.RecordsCNAME()
CallRecordsCNAME ==
    /\ ret.op = "parse"
    /\ rp.ok
    /\ LET c == RecordsCNAME(rp) IN
         ret' = [NoCall EXCEPT !.op = "cname", !.err = c.err, !.strs = c.strs]
    /\ UNCHANGED <<query, resp, rp, heap, cp, arg, res>>

\* rp.RecordsA()
CallRecordsA ==
    /\ ret.op \in {"none", "parse"}
    /\ rp.ok
    /\ LET c == RecordsA(rp) IN
         ret' = [NoCall EXCEPT !.op = "a", !.err = c.err, !.strs = c.strs]
    /\ UNCHANGED <<query, resp, rp, heap, cp, arg, res>>

\* rp.RecordsAAAA()
CallRecordsAAAA ==
    /\ ret.op \in {"none", "parse"}
    /\ rp.ok
    /\ LET c == RecordsAAAA(rp) IN
         ret' = [NoCall EXCEPT !.op = "aaaa", !.err = c.err, !.strs = c.strs]
    /\ UNCHANGED <<query, resp, rp, heap, cp, arg, res>>

\* rp.RecordFirstCNAME()
CallRecordFirstCNAME ==
    /\ ret.op \in {"none", "parse"}
    /\ rp.ok
    /\ LET c == RecordFirstCNAME(rp) IN
         ret' = [NoCall EXCEPT !.op = "firstcname", !.err = c.err, !.str = c.str]
    /\ UNCHANGED <<query, resp, rp, heap, cp, arg, res>>

Msg(id, response, aa, ra, rcode, question, answer) ==
    [Id |-> id, Response |-> response, Authoritative |-> aa,
     RecursionAvailable |-> ra, Rcode |-> rcode, Question |-> question,
     Answer |-> answer]

-----------------------------------------------------------------------------
(* Validation: headers and question lists of query and response.           *)

QueryQuestions ==
    {Question(n, t, ClassINET) : n \in {n_a, n_A}, t \in {TypeA, TypeAAAA}}
RespQuestions ==
    {Question(n, t, c) : n \in {n_a, n_A, n_b}, t \in {TypeA, TypeAAAA},
                         c \in {ClassINET, ClassCHAOS}}

InitValidate ==
    /\ \E id \in {0, 1}, qs \in SeqUpTo(QueryQuestions, MaxQuestions) :
         query = Msg(id, FALSE, FALSE, FALSE, RcodeSuccess, qs, <<>>)
    /\ \E id \in {0, 1}, response \in BOOLEAN,
          rcode \in {RcodeSuccess, RcodeNameError},
          qs \in SeqUpTo(RespQuestions, MaxQuestions) :
         resp = Msg(id, response, FALSE, FALSE, rcode, qs, <<>>)
    /\ rp = NoResponse
    /\ ret = NoCall
    /\ BuilderIdle

NextValidate == CallValidate

SpecValidate == InitValidate /\ [][NextValidate]_vars

-----------------------------------------------------------------------------
(* Result codes: every code, flag and answer section.                      *)

RcodeRRs == {RR_A(n_a, ClassINET), RR_CNAME(n_a, ClassINET, n_b)}

InitRCODE ==
    /\ query = Msg(0, FALSE, FALSE, FALSE, RcodeSuccess,
                   <<Question(n_a, TypeA, ClassINET)>>, <<>>)
    /\ \E rcode \in 0..MaxRcode, aa \in BOOLEAN, ra \in BOOLEAN,
          answer \in SeqUpTo(RcodeRRs, MaxAnswers) :
         resp = Msg(0, TRUE, aa, ra, rcode,
                    <<Question(n_a, TypeA, ClassINET)>>, answer)
    /\ rp = NoResponse
    /\ ret = NoCall
    /\ BuilderIdle

NextRCODE == CallRCODE

SpecRCODE == InitRCODE /\ [][NextRCODE]_vars

-----------------------------------------------------------------------------
(* Extraction: a valid reply to a one-question query, with every answer    *)
(* section over a pool of records whose owners and targets differ from the *)
(* query name in letter case, in the trailing dot, or altogether.          *)

ExtractQueryNames == {n_a, n_a_rel}
ExtractOwners == {n_A, n_B, n_b_rel, n_c}
ExtractTargets == {n_B_rel, n_C}
ExtractRRs ==
    {RR_A(n, c) : n \in ExtractOwners, c \in {ClassINET, ClassCHAOS}}
    \cup {RR_CNAME(n, c, t) : n \in ExtractOwners, c \in {ClassINET, ClassCHAOS},
                              t \in ExtractTargets}

InitExtract ==
    /\ \E qn \in ExtractQueryNames, answer \in SeqUpTo(ExtractRRs, MaxAnswers) :
         /\ query = Msg(0, FALSE, FALSE, FALSE, RcodeSuccess,
                        <<Question(qn, TypeA, ClassINET)>>, <<>>)
         /\ resp = Msg(0, TRUE, FALSE, TRUE, RcodeSuccess,
                       <<Question(qn, TypeA, ClassINET)>>, answer)
    /\ rp = NoResponse
    /\ ret = NoCall
    /\ BuilderIdle

NextExtract == CallExtract

SpecExtract == InitExtract /\ [][NextExtract]_vars

\* Replies whose records are of four types, for questions of two types.
KindRRs ==
    UNION {{RR_A(n, c), RR_AAAA(n, c), RR_TXT(n, c), RR_CNAME(n, c, n_B_rel)} :
           n \in {n_A, n_b}, c \in {ClassINET, ClassCHAOS}}

InitKinds ==
    /\ \E qt \in {TypeA, TypeAAAA}, answer \in SeqUpTo(KindRRs, MaxAnswers) :
         /\ query = Msg(0, FALSE, FALSE, FALSE, RcodeSuccess,
                        <<Question(n_a, qt, ClassINET)>>, <<>>)
         /\ resp = Msg(0, TRUE, FALSE, TRUE, RcodeSuccess,
                       <<Question(n_a, qt, ClassINET)>>, answer)
    /\ rp = NoResponse
    /\ ret = NoCall
    /\ BuilderIdle

NextKinds == CallExtract

SpecKinds == InitKinds /\ [][NextKinds]_vars

\* The same replies, parsed and then projected.
NextFacade == CallParse \/ CallRecordsCNAME

SpecFacade == InitExtract /\ [][NextFacade]_vars

-----------------------------------------------------------------------------
(* The pipeline: headers, question lists, result codes and answers vary    *)
(* together.                                                               *)

ParseRespQuestions ==
    {Question(n_A, TypeA, ClassINET), Question(n_b, TypeA, ClassINET)}
ParseRRs == {RR_A(n_A, ClassINET), RR_A(n_b, ClassINET)}

InitParse ==
    /\ \E qs \in SeqUpTo({Question(n_a, TypeA, ClassINET)}, MaxQuestions) :
         query = Msg(0, FALSE, FALSE, FALSE, RcodeSuccess, qs, <<>>)
    /\ \E id \in {0, 1}, response \in BOOLEAN, rcode \in 0..MaxRcode,
          aa \in BOOLEAN, ra \in BOOLEAN,
          qs \in SeqUpTo(ParseRespQuestions, MaxQuestions),
          answer \in SeqUpTo(ParseRRs, MaxAnswers) :
         resp = Msg(id, response, aa, ra, rcode, qs, answer)
    /\ rp = NoResponse
    /\ ret = NoCall
    /\ BuilderIdle

NextParse == CallValidate \/ CallRCODE \/ CallExtract \/ CallParse

SpecParse == InitParse /\ [][NextParse]_vars

\* Replies to one question "a." A IN: any header, and answers of both
\* classes at the query name and at another name.
ReplyRRs == {RR_A(n_A, ClassINET), RR_A(n_A, ClassCHAOS), RR_A(n_b, ClassINET)}

InitReply ==
    /\ query = Msg(0, FALSE, FALSE, FALSE, RcodeSuccess,
                   <<Question(n_a, TypeA, ClassINET)>>, <<>>)
    /\ \E id \in {0, 1}, response \in BOOLEAN, aa \in BOOLEAN, ra \in BOOLEAN,
          rcode \in {RcodeSuccess, RcodeServerFailure, RcodeNameError},
          answer \in SeqUpTo(ReplyRRs, MaxAnswers) :
         resp = Msg(id, response, aa, ra, rcode,
                    <<Question(n_A, TypeA, ClassINET)>>, answer)
    /\ rp = NoResponse
    /\ ret = NoCall
    /\ BuilderIdle

NextReply == CallParse

SpecReply == InitReply /\ [][NextReply]_vars

\* Every call on the response side, the projections after a parse.
NextFrame ==
    \/ CallValidate
    \/ CallRCODE
    \/ CallExtract
    \/ CallParse
    \/ CallRecordsA
    \/ CallRecordsAAAA
    \/ CallRecordFirstCNAME
    \/ CallRecordsCNAME

SpecFrame == InitParse /\ [][NextFrame]_vars

-----------------------------------------------------------------------------
(* The projections of a Response built with a given ValidRRs list.         *)

ProjRRs ==
    {RR_A(n_a, ClassINET), [RR_A(n_a, ClassINET) EXCEPT !.Addr = 2],
     RR_AAAA(n_a, ClassINET), [RR_AAAA(n_a, ClassINET) EXCEPT !.Addr = 4],
     RR_CNAME(n_a, ClassINET, n_b), RR_TXT(n_a, ClassINET)}

InitProj ==
    /\ query = Msg(0, FALSE, FALSE, FALSE, RcodeSuccess, <<>>, <<>>)
    /\ resp = Msg(0, FALSE, FALSE, FALSE, RcodeSuccess, <<>>, <<>>)
    /\ \E rrs \in SeqUpTo(ProjRRs, MaxAnswers) :
         rp = NewResponse("query", "resp", rrs)
    /\ ret = NoCall
    /\ BuilderIdle

NextProj == CallRecordsA \/ CallRecordsAAAA \/ CallRecordFirstCNAME

SpecProj == InitProj /\ [][NextProj]_vars

-----------------------------------------------------------------------------
(* The query builder: a Query q at heap[1], its clone, assignments to the  *)
(* fields of either, and NewMsg on either.                                 *)

ResponseIdle ==
    /\ query = Msg(0, FALSE, FALSE, FALSE, RcodeSuccess, <<>>, <<>>)
    /\ resp = Msg(0, FALSE, FALSE, FALSE, RcodeSuccess, <<>>, <<>>)
    /\ rp = NoResponse
    /\ ret = NoCall

QueryNames == {n_a_rel, n_A, n_bad}
QueryTypes == {TypeA, TypeAAAA}
QueryIDs == {0, 1}
QuerySizes == {QueryMaxResponseSizeUDP, QueryMaxResponseSizeTCP}

\* clone := q.Clone()
CallClone ==
    /\ cp = 0
    /\ res.op = "none"
    /\ LET c == Clone(heap, 1) IN
         /\ heap' = c.heap
         /\ cp' = c.ptr
         /\ res' = [NoRes EXCEPT !.op = "clone", !.ptr = c.ptr]
    /\ UNCHANGED <<query, resp, rp, ret, arg>>

\* p.Name = ..., p.Type = ..., p.Flags = ..., p.ID = ..., p.MaxSize = ...
Assign(p, field, v) ==
    /\ cp # 0
    /\ res.op \in {"clone", "assign"}
    /\ heap' = [heap EXCEPT ![p][field] = v]
    /\ res' = [NoRes EXCEPT !.op = "assign", !.ptr = p]
    /\ UNCHANGED <<query, resp, rp, ret, cp, arg>>

AssignAny ==
    \E p \in {1, cp} :
        \/ \E v \in QueryNames : Assign(p, "Name", v)
        \/ \E v \in QueryTypes : Assign(p, "Type", v)
        \/ \E v \in 0..MaxFlags : Assign(p, "Flags", v)
        \/ \E v \in QueryIDs : Assign(p, "ID", v)
        \/ \E v \in QuerySizes : Assign(p, "MaxSize", v)

\* msg, err := p.NewMsg()
CallNewMsg ==
    /\ res.op # "newmsg"
    /\ \E p \in {1, cp} \ {0} :
         LET r == NewMsg(heap[p]) IN
           /\ heap' = [heap EXCEPT ![p] = r.self]
           /\ res' = [NoRes EXCEPT !.op = "newmsg", !.err = r.err, !.msg = r.msg,
                                   !.ptr = p]
    /\ UNCHANGED <<query, resp, rp, ret, cp, arg>>

InitQuery ==
    /\ ResponseIdle
    /\ \E name \in QueryNames, qtype \in QueryTypes, flags \in 0..MaxFlags,
          id \in QueryIDs, maxSize \in QuerySizes :
         heap = <<Query(name, qtype, flags, id, maxSize)>>
    /\ cp = 0
    /\ arg = NoArg
    /\ res = NoRes

NextQuery == CallClone \/ AssignAny \/ CallNewMsg

SpecQuery == InitQuery /\ [][NextQuery]_vars

-----------------------------------------------------------------------------
(* The comparator, on every pair of short names over '.', '@', 'A', 'Z',   *)
(* '[', '`', 'a', 'z' and '{'.                                             *)

NameBytes == {46, 64, 65, 90, 91, 96, 97, 122, 123}

\* responseEqualASCIIName(tt.x, tt.y)
CallEqualName ==
    /\ res.op = "none"
    /\ res' = [NoRes EXCEPT !.op = "equal",
                            !.b = responseEqualASCIIName(arg.x, arg.y)]
    /\ UNCHANGED <<query, resp, rp, ret, heap, cp, arg>>

InitNames ==
    /\ ResponseIdle
    /\ heap = <<>>
    /\ cp = 0
    /\ \E x \in SeqUpTo(NameBytes, MaxNameLen), y \in SeqUpTo(NameBytes, MaxNameLen) :
         arg = [NoArg EXCEPT !.x = x, !.y = y]
    /\ res = NoRes

NextNames == CallEqualName

SpecNames == InitNames /\ [][NextNames]_vars

-----------------------------------------------------------------------------
(* The round trip: a message built by NewMsg, a reply to it, and the       *)
(* validation of the reply against the message.                            *)

\* the header fields of the built *dns.Msg that the response side reads:
\* new(dns.Msg) leaves Response, Authoritative, RecursionAvailable, Rcode
\* and Answer at their zero values
QueryMsgOf(m) == Msg(m.Id, FALSE, FALSE, FALSE, RcodeSuccess, m.Question, <<>>)

\* the built message is the query, and a reply arrives: with its ID or
\* another, with or without the response flag, with its question list or
\* one of another type
Exchange ==
    /\ res.op = "newmsg"
    /\ res.err = NoError
    /\ ret.op = "none"
    /\ Len(query.Question) = 0
    /\ query' = QueryMsgOf(res.msg)
    /\ \E id \in {res.msg.Id, 1 - res.msg.Id}, response \in BOOLEAN,
          aa \in BOOLEAN, ra \in BOOLEAN,
          rcode \in {RcodeSuccess, RcodeNameError},
          qs \in {res.msg.Question,
                  [k \in 1..Len(res.msg.Question) |->
                      [res.msg.Question[k] EXCEPT !.Qtype = TypeA + TypeAAAA - @]]} :
         resp' = Msg(id, response, aa, ra, rcode, qs, <<>>)
    /\ UNCHANGED <<rp, ret, heap, cp, arg, res>>

NextRoundTrip == CallNewMsg \/ Exchange \/ CallValidate

SpecRoundTrip == InitQuery /\ [][NextRoundTrip]_vars

-----------------------------------------------------------------------------
(* Padding: the size computed for every base length, small or around the   *)
(* point where uint16(len+4) wraps.                                        *)

BaseLens == (0..MaxBaseLen) \cup (65520..65550)

\* remainder := (desiredSize - uint16(msg.Len()+4)) % desiredSize
CallPaddingSize ==
    /\ res.op = "none"
    /\ res' = [NoRes EXCEPT !.op = "padding", !.n = PaddingSize(arg.n)]
    /\ UNCHANGED <<query, resp, rp, ret, heap, cp, arg>>

InitPadding ==
    /\ ResponseIdle
    /\ heap = <<>>
    /\ cp = 0
    /\ \E len \in BaseLens : arg = [NoArg EXCEPT !.n = len]
    /\ res = NoRes

NextPadding == CallPaddingSize

SpecPadding == InitPadding /\ [][NextPadding]_vars

-----------------------------------------------------------------------------
(* Properties.                                                             *)

\* x with 'A'..'Z' folded to lower case, byte by byte
LowerName(x) == [i \in 1..Len(x) |-> IF x[i] \in 65..90 THEN x[i] + 32 ELSE x[i]]

\* C1: whenever response.Id differs from query.Id, ValidateResponseForQuery
\* returns ErrInvalidResponse, whatever the response flag, the question
\* lists and the result code are.
C1_IdMismatchIsInvalidResponse ==
    (ret.op = "validate" /\ resp.Id # query.Id)
        => (ret.err = ErrInvalidResponse /\ ret.q = ZeroQuestion)

C1_Witness ==
    /\ ret.op = "validate"
    /\ resp.Id # query.Id
    /\ resp.Response
    /\ Len(query.Question) = 0
    /\ resp.Rcode = RcodeNameError
    /\ ret.err = ErrInvalidResponse

\* C2 as stated: for every query with zero or with two or more questions and
\* every response, ValidateResponseForQuery returns ErrInvalidQuery.
C2_Original ==
    (ret.op = "validate" /\ Len(query.Question) # 1)
        => ret.err = ErrInvalidQuery

\* C2 amended: for every query with zero or with two or more questions,
\* ValidateResponseForQuery returns ErrInvalidQuery when the response has the
\* response flag set and the query's Id, and ErrInvalidResponse otherwise.
C2_BadQueryAfterFlagAndId ==
    (ret.op = "validate" /\ Len(query.Question) # 1)
        => ret.err = IF resp.Response /\ resp.Id = query.Id
                     THEN ErrInvalidQuery
                     ELSE ErrInvalidResponse

C2_Witness ==
    /\ ret.op = "validate"
    /\ Len(query.Question) = 2
    /\ resp.Response
    /\ resp.Id = query.Id
    /\ Len(resp.Question) = 0
    /\ ret.err = ErrInvalidQuery

\* the conditions of C3
C3_Matches ==
    /\ resp.Response
    /\ resp.Id = query.Id
    /\ Len(query.Question) = 1
    /\ Len(resp.Question) = 1
    /\ LowerName(resp.Question[1].Name) = LowerName(query.Question[1].Name)
    /\ resp.Question[1].Qclass = query.Question[1].Qclass
    /\ resp.Question[1].Qtype = query.Question[1].Qtype

\* C3: ValidateResponseForQuery succeeds if and only if the response flag is
\* set, the IDs are equal, query and response each carry exactly one
\* question, the names are equal up to ASCII letter case and classes and
\* types are equal; on success it returns the query's question, with the
\* query's letter case.
C3_ValidateSucceedsIff ==
    ret.op = "validate"
        => /\ (ret.err = NoError) <=> C3_Matches
           /\ ret.err = NoError => ret.q = query.Question[1]
           /\ ret.err # NoError => ret.q = ZeroQuestion

C3_Witness ==
    /\ ret.op = "validate"
    /\ ret.err = NoError
    /\ query.Question[1].Name = n_a
    /\ resp.Question[1].Name = n_A
    /\ ret.q.Name = n_a

\* the table of C4
C4_Expected(rcode, aa, ra, noAnswers) ==
    IF rcode = RcodeNameError THEN ErrNoName
    ELSE IF rcode = RcodeSuccess /\ ~aa /\ ~ra /\ noAnswers THEN ErrNoData
    ELSE IF rcode = RcodeServerFailure THEN ErrServerTemporarilyMisbehaving
    ELSE IF rcode # RcodeSuccess THEN ErrServerMisbehaving
    ELSE NoError

C5_FirstErrorWins ==
    ret.op = "parse"
        => LET v == ValidateResponseForQuery(query, resp)
               e == ResponseErrorFromRCODE(resp)
               x == ResponseExtractValidAnswers(v.q, resp)
           IN  /\ (~resp.Response \/ resp.Id # query.Id)
                    => ret.err = ErrInvalidResponse
               /\ v.err # NoError
                    => /\ ret.err = v.err
                       /\ ret.err \in {ErrInvalidQuery, ErrInvalidResponse}
                       /\ ret.stage = "validate"
               /\ (v.err = NoError /\ resp.Rcode # RcodeSuccess)
                    => /\ ret.err = e
                       /\ ret.err \in {ErrNoName, ErrServerMisbehaving,
                                       ErrServerTemporarilyMisbehaving}
                       /\ ret.stage = "rcode"
               /\ (v.err = NoError /\ e = NoError /\ x.err # NoError)
                    => ret.err = x.err /\ ret.stage = "extract"
               /\ rp.ok <=> (v.err = NoError /\ e = NoError /\ x.err = NoError)
               /\ rp.ok <=> ret.err = NoError

C5_Witness ==
    /\ ret.op = "parse"
    /\ resp.Response
    /\ resp.Id = query.Id
    /\ Len(query.Question) = 2
    /\ resp.Rcode = RcodeNameError
    /\ Len(resp.Answer) > 0
    /\ ret.err = ErrInvalidQuery
    /\ ~rp.ok

\* C6: every Response returned by ParseResponse has a non-empty ValidRRs; an
\* empty list of valid records is reported as ErrNoData with no Response, and
\* ResponseExtractValidAnswers returns either a non-empty list and no error
\* or a nil list and ErrNoData.
C6_ValidRRsNonEmpty ==
    /\ (ret.op = "parse" /\ rp.ok) => Len(rp.ValidRRs) >= 1
    /\ (ret.op = "parse" /\ ret.stage = "extract")
         => (ret.err = ErrNoData /\ ~rp.ok)
    /\ ret.op = "extract"
         => \/ ret.err = NoError /\ ~ret.rrs.isNil /\ Len(ret.rrs.items) >= 1
            \/ ret.err = ErrNoData /\ ret.rrs = NilList

C6_Witness ==
    /\ ret.op = "parse"
    /\ ret.stage = "extract"
    /\ Len(resp.Answer) >= 1
    /\ ret.err = ErrNoData
    /\ ~rp.ok

\* s[i..] is a subsequence of t[j..]: its elements are elements of t at
\* strictly increasing positions
RECURSIVE IsSubsequenceFrom(_, _, _, _)
IsSubsequenceFrom(s, t, i, j) ==
    IF i > Len(s) THEN TRUE
    ELSE IF j > Len(t) THEN FALSE
    ELSE IF s[i] = t[j] THEN IsSubsequenceFrom(s, t, i + 1, j + 1)
    ELSE IsSubsequenceFrom(s, t, i, j + 1)

\* C7: the list returned by ResponseExtractValidAnswers is a subsequence of
\* the answer section: answer records, none taken twice, in the answer
\* section's order.
C7_ResultIsSubsequence ==
    ret.op = "extract"
        => /\ IsSubsequenceFrom(ret.rrs.items, resp.Answer, 1, 1)
           /\ Len(ret.rrs.items) <= Len(resp.Answer)

C7_Witness ==
    /\ ret.op = "extract"
    /\ Len(resp.Answer) = 3
    /\ ret.err = NoError
    /\ ret.rrs.items = <<resp.Answer[1], resp.Answer[3]>>
    /\ resp.Answer[1] # resp.Answer[3]
    /\ resp.Answer[2] # resp.Answer[3]

\* x and y are the same name up to ASCII letter case
SameName(x, y) == LowerName(x) = LowerName(y)

\* answer is k CNAMEs, each owned by the target of the one before (the first
\* by qname), followed by records of other types owned by the last target,
\* all of class qclass
C8_WellOrderedChain(qname, qclass, answer, k) ==
    /\ \A i \in 1..Len(answer) : answer[i].Class = qclass
    /\ \A i \in 1..k :
         /\ answer[i].kind = "CNAME"
         /\ SameName(answer[i].Name, IF i = 1 THEN qname ELSE answer[i - 1].Target)
    /\ \A i \in (k + 1)..Len(answer) :
         /\ answer[i].kind # "CNAME"
         /\ SameName(answer[i].Name, IF k = 0 THEN qname ELSE answer[k].Target)

\* C8: for every answer section that is a well-ordered CNAME chain starting
\* at the query name followed by terminal records owned by the last target,
\* ResponseExtractValidAnswers returns all the records in order, whatever
\* the letter case of each occurrence of a name.
C8_ChainIsKeptWhole ==
    (/\ ret.op = "extract"
     /\ Len(resp.Answer) >= 1
     /\ \E k \in 0..Len(resp.Answer) :
          C8_WellOrderedChain(query.Question[1].Name, query.Question[1].Qclass,
                              resp.Answer, k))
        => (ret.err = NoError /\ ret.rrs.items = resp.Answer)

\* C9: if no answer record has both the question's class and a canonicalized
\* owner name equal to the canonicalized query name, then
\* ResponseExtractValidAnswers returns ErrNoData.
C9_NoRecordAtQueryNameIsNoData ==
    (/\ ret.op = "extract"
     /\ \A i \in 1..Len(resp.Answer) :
          ~(/\ resp.Answer[i].Class = query.Question[1].Qclass
            /\ Fqdn(LowerName(resp.Answer[i].Name))
                 = Fqdn(LowerName(query.Question[1].Name))))
        => (ret.err = ErrNoData /\ ret.rrs = NilList)

C9_Witness ==
    /\ ret.op = "extract"
    /\ ret.err = ErrNoData
    /\ Len(resp.Answer) = 3
    /\ query.Question[1].Name = n_a
    /\ resp.Answer[1] = RR_CNAME(n_A, ClassCHAOS, n_B_rel)
    /\ resp.Answer[2] = RR_CNAME(n_B, ClassINET, n_C)
    /\ resp.Answer[3] = RR_A(n_c, ClassINET)

RECURSIVE C11_Addrs(_, _)
C11_Addrs(rrs, kind) ==
    IF rrs = <<>> THEN <<>>
    ELSE IF Head(rrs).kind = kind
         THEN <<IPString(Head(rrs).Addr)>> \o C11_Addrs(Tail(rrs), kind)
         ELSE C11_Addrs(Tail(rrs), kind)

C11_Projection(kind) ==
    LET want == C11_Addrs(rp.ValidRRs, kind) IN
    IF want = <<>>
    THEN ret.err = ErrNoData /\ ret.strs = NilList
    ELSE ret.err = NoError /\ ret.strs = List(want)

\* C11: RecordsA returns exactly the addresses of the A records and
\* RecordsAAAA exactly those of the AAAA records, in the order of the valid
\* list, other records contributing nothing; with no record of its type a
\* projection returns ErrNoData and a nil list, never an empty list.
C11_ProjectionsByType ==
    /\ ret.op = "a" => C11_Projection("A")
    /\ ret.op = "aaaa" => C11_Projection("AAAA")

\* RecordsA has returned the two A addresses of a list that also holds an
\* AAAA record and a CNAME between them.
C11_Witness ==
    /\ ret.op = "a"
    /\ Len(rp.ValidRRs) = 3
    /\ rp.ValidRRs[1].kind = "A" /\ rp.ValidRRs[1].Addr = 2
    /\ rp.ValidRRs[2].kind = "AAAA"
    /\ rp.ValidRRs[3].kind = "A" /\ rp.ValidRRs[3].Addr = 1
    /\ ret.strs = List(<<"8.8.8.8", "127.0.0.1">>)

\* C12: with block-length padding, for every base length L (L+4 above 128
\* and L+4 a multiple of 128 included) the padding size computed in uint16
\* lies in 0..127, equals the mathematical (128 - (L+4)) mod 128, and
\* L + 4 + padding is the smallest multiple of 128 that is >= L + 4.
C12_PaddingReachesNextBlock ==
    res.op = "padding" =>
        LET L == arg.n
            padding == res.n
        IN  /\ padding \in 0..127
            /\ padding = (128 - (L + 4)) % 128
            /\ (L + 4 + padding) % 128 = 0
            /\ \A m \in (L + 4)..(L + 4 + padding - 1) : m % 128 # 0

\* A base length of 200, past the first block: 52 bytes of padding reach 256.
C12_Witness ==
    /\ res.op = "padding"
    /\ arg.n = 200
    /\ res.n = 52

C13_SameFields(a, b) ==
    /\ a.Name = b.Name
    /\ a.Type = b.Type
    /\ a.Flags = b.Flags
    /\ a.ID = b.ID
    /\ a.MaxSize = b.MaxSize

\* C13: Clone returns a distinct Query whose five fields equal the
\* original's; no assignment to a field of the clone changes the original
\* and no assignment to a field of the original changes the clone.
C13_CloneIsIndependent ==
    /\ [](res.op = "clone" => cp # 1 /\ C13_SameFields(heap[cp], heap[1]))
    /\ [][res'.op = "assign" =>
            /\ res'.ptr = cp => heap'[1] = heap[1]
            /\ res'.ptr = 1 => heap'[cp] = heap[cp]]_vars

\* After assignments through the clone, the clone differs from the original
\* in each of the five fields.
C13_Witness ==
    /\ res.op = "assign"
    /\ res.ptr = cp
    /\ cp # 1
    /\ heap[cp].Name # heap[1].Name
    /\ heap[cp].Type # heap[1].Type
    /\ heap[cp].Flags # heap[1].Flags
    /\ heap[cp].ID # heap[1].ID
    /\ heap[cp].MaxSize # heap[1].MaxSize

\* C14: NewMsg never modifies the Query it is called on, and for a name that
\* is not valid IDNA input (here: one holding a space) it returns an error
\* and no message.
C14_NewMsgLeavesQuery ==
    [][res'.op = "newmsg" =>
         /\ heap' = heap
         /\ (\E i \in 1..Len(heap[res'.ptr].Name) : heap[res'.ptr].Name[i] = 32)
                => res'.err # NoError /\ res'.msg.isNil]_vars

\* NewMsg has failed on the name "a b".
C14_Witness ==
    /\ res.op = "newmsg"
    /\ heap[res.ptr].Name = n_bad
    /\ res.err = ErrIDNA
    /\ res.msg = NilMsg

\* C15: a message returned by NewMsg has the query's ID, recursion desired,
\* one question of class Internet with the query's type and a fully
\* qualified name, and one EDNS(0) record advertising the query's MaxSize;
\* DNSSEC-OK is set iff the DNSSEC flag is, and a padding option is present
\* iff the block-padding flag is, whatever the other flag.
C15_MessageReflectsQuery ==
    res.op = "newmsg" /\ res.err = NoError =>
        LET m == res.msg
            qv == heap[res.ptr]
        IN  /\ ~m.isNil
            /\ m.Id = qv.ID
            /\ m.RecursionDesired
            /\ Len(m.Question) = 1
            /\ m.Question[1].Qclass = ClassINET
            /\ m.Question[1].Qtype = qv.Type
            /\ m.Question[1].Name # <<>>
            /\ m.Question[1].Name[Len(m.Question[1].Name)] = 46
            /\ Len(m.Extra) = 1
            /\ m.Extra[1].UDPSize = qv.MaxSize
            /\ m.Extra[1].Do <=> qv.Flags % 4 \in {2, 3}
            /\ (\E k \in 1..Len(m.Extra[1].Option) :
                    m.Extra[1].Option[k].code = "PADDING") <=> qv.Flags % 2 = 1

\* A message built with padding and without DNSSEC-OK, for a relative name.
C15_Witness ==
    /\ res.op = "newmsg"
    /\ res.err = NoError
    /\ heap[res.ptr].Flags = QueryFlagBlockLengthPadding
    /\ heap[res.ptr].Name = n_a_rel
    /\ res.msg.Question[1].Name = n_a
    /\ ~res.msg.Extra[1].Do
    /\ Len(res.msg.Extra[1].Option) = 1

\* the tip when answer i is visited: the query name, or the canonicalized
\* target of the last CNAME followed before i
C16_TipAt(q0, answer, followed, i) ==
    LET before == {followed[k] : k \in 1..Len(followed)} \cap 1..(i - 1) IN
    IF before = {} THEN q0.Name
    ELSE LET last == CHOOSE j \in before : \A k \in before : k <= j
         IN  responseCanonicalName(answer[last].Target)

\* C16: in the single in-order pass a CNAME is followed iff, when visited,
\* its owner equals the current tip under the case-insensitive comparator
\* and its class is the question's; the valid names are the canonicalized
\* query name and the canonicalized targets of the followed CNAMEs only, so
\* a CNAME of another class, or one ahead of the CNAME that would make its
\* owner the tip, adds nothing.
C16_SinglePassChain ==
    ret.op = "extract" =>
        LET q0 == query.Question[1]
            answer == resp.Answer
            chain == ChainOf(q0, answer)
            F == {chain.followed[k] : k \in 1..Len(chain.followed)}
        IN  /\ \A i \in 1..Len(answer) :
                 i \in F <=>
                    /\ answer[i].kind = "CNAME"
                    /\ SameName(C16_TipAt(q0, answer, chain.followed, i),
                                answer[i].Name)
                    /\ answer[i].Class = q0.Qclass
            /\ \A k \in 1..(Len(chain.followed) - 1) :
                 chain.followed[k] < chain.followed[k + 1]
            /\ chain.validNames =
                 {LowerName(Fqdn(q0.Name))}
                 \cup {LowerName(Fqdn(answer[i].Target)) : i \in F}

\* "b." -> "C." comes before "A." -> "B", which would make "b." the tip; and
\* a third CNAME at the tip has the wrong class: one CNAME is followed.
C16_Witness ==
    /\ ret.op = "extract"
    /\ query.Question[1].Name = n_a
    /\ resp.Answer = <<RR_CNAME(n_B, ClassINET, n_C),
                       RR_CNAME(n_A, ClassINET, n_B_rel),
                       RR_CNAME(n_B, ClassCHAOS, n_C)>>
    /\ ChainOf(query.Question[1], resp.Answer).followed = <<2>>
    /\ ChainOf(query.Question[1], resp.Answer).validNames = {n_a, n_b}
    /\ Len(ret.rrs.items) = 2

\* C17: an answer record is in the result iff its canonicalized owner is a
\* valid name and its class is the question's; its type plays no part, also
\* when it differs from the question's type.
C17_KeptByNameAndClass ==
    ret.op = "extract" =>
        LET q0 == query.Question[1]
            names == ChainOf(q0, resp.Answer).validNames
            kept == SelectSeq(resp.Answer,
                              LAMBDA rr : /\ LowerName(Fqdn(rr.Name)) \in names
                                          /\ rr.Class = q0.Qclass)
        IN  IF kept = <<>>
            THEN ret.err = ErrNoData /\ ret.rrs = NilList
            ELSE ret.err = NoError /\ ret.rrs = List(kept)

\* For a question of type A, a TXT, an AAAA and an A record at valid names
\* are all kept.
C17_Witness ==
    /\ ret.op = "extract"
    /\ query.Question[1].Qtype = TypeA
    /\ resp.Answer = <<RR_TXT(n_A, ClassINET), RR_AAAA(n_A, ClassINET),
                       RR_A(n_A, ClassINET)>>
    /\ ret.rrs = List(resp.Answer)

\* C18: responseEqualASCIIName(x, y) is true iff x and y have the same
\* length and at every position the bytes are equal after folding only
\* 'A'..'Z' to lower case; other bytes compare literally, a trailing dot is
\* neither added nor removed, two empty names are equal, and a proper prefix
\* of a name is unequal to it.
C18_EqualNameFoldsLettersOnly ==
    res.op = "equal" =>
        LET x == arg.x
            y == arg.y
            lower(c) == IF c \in 65..90 THEN c + 32 ELSE c
        IN  /\ res.b <=> /\ Len(x) = Len(y)
                         /\ \A i \in 1..Len(x) : lower(x[i]) = lower(y[i])
            /\ (/\ Len(x) = Len(y)
                /\ \E i \in 1..Len(x) :
                     x[i] \notin 65..90 /\ y[i] \notin 65..90 /\ x[i] # y[i])
                   => ~res.b
            /\ (x = y \o <<46>> \/ y = x \o <<46>>) => ~res.b
            /\ (x = <<>> /\ y = <<>>) => res.b
            /\ (Len(x) < Len(y) /\ x = SubSeq(y, 1, Len(x))) => ~res.b
            /\ (Len(y) < Len(x) /\ y = SubSeq(x, 1, Len(y))) => ~res.b

\* "Z@" and "z`" are unequal: 'Z' folds to 'z', '@' does not fold to '`'.
C18_Witness ==
    /\ res.op = "equal"
    /\ arg.x = <<90, 64>>
    /\ arg.y = <<122, 96>>
    /\ ~res.b

\* C19: ValidateResponseForQuery, ResponseErrorFromRCODE,
\* ResponseExtractValidAnswers, ParseResponse and the projections leave the
\* query message, the response message (header, question list, answer
\* section and its order) and the ValidRRs of the Response as they were,
\* whether the call succeeds or fails.
C19_CallsLeaveInputs ==
    [][/\ query' = query
       /\ resp' = resp
       /\ rp.ok => rp'.ok /\ rp'.ValidRRs = rp.ValidRRs]_vars

\* After a parse that dropped an answer record, RecordsA has returned; the
\* response still holds the dropped record.
C19_Witness ==
    /\ ret.op = "a"
    /\ ret.err = NoError
    /\ rp.ok
    /\ Len(rp.ValidRRs) = 1
    /\ resp.Answer = <<RR_A(n_b, ClassINET), RR_A(n_A, ClassINET)>>

\* C20: extraction is idempotent: when it succeeds with list V for question
\* q, running it again for q on a response whose answer section is V
\* succeeds and returns V, same records in the same order.
C20_ExtractIdempotent ==
    ret.op = "extract" /\ ret.err = NoError =>
        LET q0 == query.Question[1]
            V == ret.rrs.items
            again == ResponseExtractValidAnswers(q0, [resp EXCEPT !.Answer = V])
        IN  /\ again.err = NoError
            /\ ~again.rrs.isNil
            /\ again.rrs.items = V

\* A first run that dropped a record, and whose result holds a followed
\* CNAME and the record at its target.
C20_Witness ==
    /\ ret.op = "extract"
    /\ ret.err = NoError
    /\ query.Question[1].Name = n_a
    /\ resp.Answer = <<RR_CNAME(n_A, ClassINET, n_B_rel), RR_A(n_c, ClassINET),
                       RR_A(n_B, ClassINET)>>
    /\ ret.rrs.items = <<RR_CNAME(n_A, ClassINET, n_B_rel), RR_A(n_B, ClassINET)>>

\* C21: for every Query for which NewMsg succeeds, whatever its flags, ID,
\* MaxSize and the letter case of its name, a response with the response
\* flag set that echoes the built message's ID and question passes
\* ValidateResponseForQuery, and the question returned is the built
\* message's single question.
C21_BuiltMessageValidatesEcho ==
    (/\ ret.op = "validate"
     /\ res.op = "newmsg"
     /\ res.err = NoError
     /\ query = QueryMsgOf(res.msg)
     /\ resp.Response
     /\ resp.Id = res.msg.Id
     /\ resp.Question = res.msg.Question)
        => /\ ret.err = NoError
           /\ Len(res.msg.Question) = 1
           /\ ret.q = res.msg.Question[1]

\* The echo of a message built for the upper-case name "A." with both flags
\* set has passed validation, and the question returned is the built one.
C21_Witness ==
    /\ ret.op = "validate"
    /\ ret.err = NoError
    /\ res.op = "newmsg"
    /\ heap[1].Name = n_A
    /\ heap[1].Flags = QueryFlagBlockLengthPadding + QueryFlagDNSSec
    /\ heap[1].ID = 1
    /\ heap[1].MaxSize = QueryMaxResponseSizeTCP
    /\ query = QueryMsgOf(res.msg)
    /\ resp.Response
    /\ resp.Id = 1
    /\ resp.Question = res.msg.Question
    /\ ret.q = res.msg.Question[1]

\* C22: every Response returned by ParseResponse is for a response with the
\* response flag set, the query's ID and result code success, which is not
\* an answer-less non-authoritative non-recursive message; every record of
\* ValidRRs has the class of the query's question; and its Query and
\* Response fields are the very messages passed in.
C22_ParsedResponseIsSound ==
    ret.op = "parse" /\ ret.err = NoError =>
        /\ rp.ok
        /\ resp.Response
        /\ resp.Id = query.Id
        /\ resp.Rcode = RcodeSuccess
        /\ ~(/\ Len(resp.Answer) = 0
             /\ ~resp.Authoritative
             /\ ~resp.RecursionAvailable)
        /\ \A k \in 1..Len(rp.ValidRRs) :
             rp.ValidRRs[k].Class = query.Question[1].Qclass
        /\ rp.Query = "query"
        /\ rp.Response = "resp"

\* A Response for a non-authoritative, non-recursive reply whose answer
\* section also holds a record of class CHAOS and one at another name.
C22_Witness ==
    /\ ret.op = "parse"
    /\ ret.err = NoError
    /\ rp.ok
    /\ ~resp.Authoritative
    /\ ~resp.RecursionAvailable
    /\ resp.Answer = <<RR_A(n_A, ClassCHAOS), RR_A(n_A, ClassINET),
                       RR_A(n_b, ClassINET)>>
    /\ rp.ValidRRs = <<RR_A(n_A, ClassINET)>>

====
